---- MODULE Spec2Model ----
(***************************************************************************)
(* Model of BeautyProductRecommendationSystem (src/app.py).                *)
(*                                                                         *)
(* Text is modelled as TLA+ strings handled character by character         *)
(* (Len, SubSeq and \o on strings), so lower-casing, stripping, the        *)
(* regular-expression substitution, splitting and substring tests are      *)
(* computed the way the Python code computes them.                         *)
(* A table cell is NaN, a string or a number; numbers are kept in tenths   *)
(* (rating 4.9 is 49).  Similarities are kept in units of 1/Scale.         *)
(***************************************************************************)
EXTENDS Integers, Sequences, FiniteSets, TLC

VARIABLES products_df, tfidf_vectorizer, similarity_matrix, ret, tie_order
\* tie_order is not a field of the object: it is what the sort of line 213 does
\* with rows of equal score in the installed numpy build, fixed for a run

vars == <<products_df, tfidf_vectorizer, similarity_matrix, ret, tie_order>>

----------------------------------------------------------------------------
(* Bounds of the model *)

\* uploaded tables have at most MaxRows rows
MaxRows == 2
\* the built-in catalog is loaded up to its first SeedRows rows
SeedRows == 2
\* rank_on_subset is called with top_n in 1..MaxTopN
MaxTopN == 2
\* candidate lists of the ranker scenarios have at most MaxSubset entries
MaxSubset == 2
\* the ranker scenarios have at most MaxRank products
MaxRank == 2
\* a similarity of 1.0 is the integer Scale
Scale == 1000

----------------------------------------------------------------------------
(* Python values *)

None == [kind |-> "None"]
NaN == [kind |-> "nan"]
Str(s) == [kind |-> "str", s |-> s]
Num(t) == [kind |-> "num", tenths |-> t]

\* pd.isna on a cell
isna(c) == c.kind = "nan"

----------------------------------------------------------------------------
(* str methods and re functions used by the code *)

UpperCase == <<"A","B","C","D","E","F","G","H","I","J","K","L","M",
               "N","O","P","Q","R","S","T","U","V","W","X","Y","Z">>
LowerCase == <<"a","b","c","d","e","f","g","h","i","j","k","l","m",
               "n","o","p","q","r","s","t","u","v","w","x","y","z">>
Digits == <<"0","1","2","3","4","5","6","7","8","9">>

Range(f) == {f[i] : i \in DOMAIN f}

CharAt(s, i) == SubSeq(s, i, i)

LowerChar(c) ==
    IF \E i \in 1..26 : UpperCase[i] = c
    THEN LowerCase[CHOOSE i \in 1..26 : UpperCase[i] = c]
    ELSE c

RECURSIVE lower(_)
\* str.lower(), computed by halves
lower(s) ==
    IF Len(s) <= 1 THEN LowerChar(s)
    ELSE lower(SubSeq(s, 1, Len(s) \div 2)) \o lower(SubSeq(s, Len(s) \div 2 + 1, Len(s)))

IsSpace(c) == c \in {" ", "\t", "\n", "\r"}

\* \w of the re module
IsWordChar(c) == c \in Range(UpperCase) \cup Range(LowerCase) \cup Range(Digits) \cup {"_"}

\* str.strip()
strip(s) ==
    LET keep == {i \in 1..Len(s) : ~IsSpace(CharAt(s, i))}
    IN IF keep = {} THEN ""
       ELSE SubSeq(s, CHOOSE i \in keep : \A j \in keep : i <= j,
                      CHOOSE i \in keep : \A j \in keep : j <= i)

\* p in t
Contains(t, p) ==
    \E i \in 1..(Len(t) - Len(p) + 1) : SubSeq(t, i, i + Len(p) - 1) = p

\* \b between position i-1 and position i of t
WordBoundary(t, i) ==
    LET before == i > 1 /\ IsWordChar(CharAt(t, i - 1))
        after == i <= Len(t) /\ IsWordChar(CharAt(t, i))
    IN before # after

\* the length of the match of \b(kulit|dan)\b at position i of t, 0 if none
FillerMatch(t, i) ==
    LET ok(w) == /\ i + Len(w) - 1 <= Len(t)
                 /\ SubSeq(t, i, i + Len(w) - 1) = w
                 /\ WordBoundary(t, i)
                 /\ WordBoundary(t, i + Len(w))
    IN IF ok("kulit") THEN Len("kulit") ELSE IF ok("dan") THEN Len("dan") ELSE 0

RECURSIVE SubFillerFrom(_, _)
SubFillerFrom(t, i) ==
    IF i > Len(t) THEN ""
    ELSE IF FillerMatch(t, i) > 0 THEN SubFillerFrom(t, i + FillerMatch(t, i))
    ELSE CharAt(t, i) \o SubFillerFrom(t, i + 1)

\* re.sub(r"\b(kulit|dan)\b", "", t)
SubFiller(t) == SubFillerFrom(t, 1)

IsDelimiter(c) == c \in {",", "|", "/", ";", "&"}

RECURSIVE split(_)
\* re.split(r"[,|/;&]", text)
split(text) ==
    LET at == {i \in 1..Len(text) : IsDelimiter(CharAt(text, i))}
    IN IF at = {} THEN <<text>>
       ELSE LET i == CHOOSE k \in at : \A j \in at : k <= j
            IN <<SubSeq(text, 1, i - 1)>> \o split(SubSeq(text, i + 1, Len(text)))

----------------------------------------------------------------------------
(* Skin-token canonicalizer *)

CANON == {"berjerawat", "berminyak", "kering", "sensitif", "normal",
          "kombinasi", "kusam", "semua"}

\* The result is an optional token: {} is None, {tok} is the token.
_canonicalize_skin_token(raw) ==
    IF raw = "" THEN {}
    ELSE LET t == strip(SubFiller(strip(lower(raw))))
         IN IF t \in CANON THEN {t}
            ELSE IF Contains(t, "semua") THEN {"semua"}
            ELSE IF Contains(t, "acne") \/ Contains(t, "jerawat") THEN {"berjerawat"}
            ELSE IF Contains(t, "oily") \/ Contains(t, "berminyak") THEN {"berminyak"}
            ELSE IF Contains(t, "dry") \/ Contains(t, "kering") THEN {"kering"}
            ELSE IF Contains(t, "sensitive") \/ Contains(t, "sensitif") THEN {"sensitif"}
            ELSE IF Contains(t, "comb") \/ Contains(t, "kombinasi") THEN {"kombinasi"}
            ELSE IF Contains(t, "dull") \/ Contains(t, "kusam") THEN {"kusam"}
            ELSE {}

RECURSIVE FormatNat(_)
FormatNat(n) == IF n < 10 THEN Digits[n + 1] ELSE FormatNat(n \div 10) \o Digits[(n % 10) + 1]

\* str() of a cell: a float prints with its decimal, NaN prints as "nan"
str(c) ==
    IF c.kind = "str" THEN c.s
    ELSE IF c.kind = "nan" THEN "nan"
    ELSE IF c.tenths < 0 THEN "-" \o FormatNat((-c.tenths) \div 10) \o "." \o FormatNat((-c.tenths) % 10)
    ELSE FormatNat(c.tenths \div 10) \o "." \o FormatNat(c.tenths % 10)

\* a parser without the fallback of line 76 (a faulty variant the properties must reject)
_parse_skin_tokens_nofallback(s) ==
    IF isna(s) THEN {"semua"}
    ELSE LET text == lower(str(s))
         IN IF Contains(text, "semua") THEN {"semua"}
            ELSE LET parts == split(text)
                 IN UNION {_canonicalize_skin_token(parts[i]) : i \in DOMAIN parts}

\* a parser that adds semua to every result (a faulty variant)
_parse_skin_tokens_withsemua(s) ==
    IF isna(s) THEN {"semua"}
    ELSE LET text == lower(str(s))
         IN IF Contains(text, "semua") THEN {"semua"}
            ELSE LET parts == split(text)
                 IN UNION {_canonicalize_skin_token(parts[i]) : i \in DOMAIN parts} \cup {"semua"}

_parse_skin_tokens(s) ==
    IF isna(s) THEN {"semua"}
    ELSE LET text == lower(str(s))
         IN IF Contains(text, "semua") THEN {"semua"}
            ELSE LET parts == split(text)
                     toks == UNION {_canonicalize_skin_token(parts[i]) : i \in DOMAIN parts}
                 IN IF toks # {} THEN toks ELSE {"semua"}

----------------------------------------------------------------------------
(* Schema normalizer *)

RECURSIVE replace(_, _, _)
\* str.replace(old, new) for a one-character old, computed by halves
replace(s, old, new) ==
    IF Len(s) <= 1 THEN (IF s = old THEN new ELSE s)
    ELSE replace(SubSeq(s, 1, Len(s) \div 2), old, new)
         \o replace(SubSeq(s, Len(s) \div 2 + 1, Len(s)), old, new)

alias_map ==
    [c \in {"product_name", "merek", "subkategori", "skin_type", "description",
            "harga", "price", "size", "gambar", "image", "link_gambar"} |->
        CASE c = "product_name" -> "nama_produk"
          [] c = "merek" -> "brand"
          [] c = "subkategori" -> "sub_kategori"
          [] c = "skin_type" -> "jenis_kulit_kompatibel"
          [] c = "description" -> "deskripsi"
          [] c \in {"harga", "price"} -> "harga_idr"
          [] c = "size" -> "size_ml"
          [] OTHER -> "url_gambar"]

required_cols ==
    {"id", "nama_produk", "brand", "sub_kategori", "manfaat", "jenis_kulit_kompatibel",
     "rating", "deskripsi", "harga_idr", "size_ml", "klaim", "url_gambar"}

numeric_cols == {"rating", "harga_idr", "size_ml"}

\* the column name after line 80 and the rename of line 88
ColumnName(c) ==
    LET n == replace(replace(strip(lower(c)), " ", "_"), ".", "")
    IN IF n \in DOMAIN alias_map THEN alias_map[n] ELSE n

IsDigit(c) == c \in Range(Digits)

DigitValue(c) == (CHOOSE i \in 1..10 : Digits[i] = c) - 1

RECURSIVE ParseNat(_)
ParseNat(s) ==
    IF s = "" THEN 0
    ELSE 10 * ParseNat(SubSeq(s, 1, Len(s) - 1)) + DigitValue(CharAt(s, Len(s)))

AllDigits(s) == s # "" /\ \A i \in 1..Len(s) : IsDigit(CharAt(s, i))

\* pd.to_numeric(errors="coerce") of one cell.  Numeric text is read in the
\* forms "d+" and "d+.d" (numbers are kept in tenths); other text is NaN.
to_numeric(c) ==
    IF c.kind # "str" THEN c
    ELSE LET s == strip(c.s)
             n == Len(s)
         IN IF AllDigits(s) THEN Num(10 * ParseNat(s))
            ELSE IF n >= 3 /\ CharAt(s, n - 1) = "." /\ IsDigit(CharAt(s, n))
                    /\ AllDigits(SubSeq(s, 1, n - 2))
                 THEN Num(10 * ParseNat(SubSeq(s, 1, n - 2)) + DigitValue(CharAt(s, n)))
            ELSE NaN

\* Series.astype(str).fillna('') of one cell: NaN is already the text "nan"
\* when fillna runs.
astype_str(c) == Str(str(c))

\* A table is [columns |-> names, data |-> rows], a row being the sequence of
\* its cells in column order.  The normalized frame is a sequence of rows,
\* each a function from column name to cell.  Input tables carry no two
\* columns with the same normalized name.
_normalize_schema(df) ==
    LET names == [i \in DOMAIN df.columns |-> ColumnName(df.columns[i])] \o <<>>
        pos(col) == CHOOSE i \in DOMAIN names : names[i] = col
        filled(r, col) ==
            IF col \in Range(names) THEN r[pos(col)]
            ELSE IF col \in numeric_cols THEN NaN ELSE Str("")
        coerced(r, col) ==
            IF col \in numeric_cols THEN to_numeric(filled(r, col))
            ELSE IF col \in required_cols \ {"id"} THEN astype_str(filled(r, col))
            ELSE filled(r, col)
    IN [k \in DOMAIN df.data |->
           [col \in Range(names) \cup required_cols |-> coerced(df.data[k], col)]]

----------------------------------------------------------------------------
(* load_and_preprocess_data *)

\* The built-in table of lines 110-166, columns sub_kategori, manfaat,
\* jenis_kulit_kompatibel, rating, klaim (the columns the engine reads).
SeedColumns == <<"sub_kategori", "manfaat", "jenis_kulit_kompatibel", "rating", "klaim">>

SeedData == <<
    <<Str("Panthenol Cleanser"), Str("Sabun cuci muka"), Str("Kulit jerawat & Kemerahan"), Num(50), Str("Hydrating|Brightening")>>,
    <<Str("Niacinamide Toner"), Str("Sebagai booster pencerah kulit"), Str("Kulit kusam"), Num(49), Str("Hydrating|Soothing|Barrier")>>,
    <<Str("Dark Spot Serum"), Str("Memudarkan noda hitam"), Str("Kulit kusam, noda hitam, jerawat"), Num(50), Str("Exfoliating|Brightening")>>,
    <<Str("Moisturizer 5x Ceramide"), Str("Mengontrol minyak & jerawat"), Str("Kulit berminyak dan berjerawat"), Num(49), Str("Anti-acne|Oil control")>>,
    <<Str("Daily Sunscreen"), Str("Menenangkan dan melembabkan"), Str("Kulit berjerawat"), Num(50), Str("Hydrating|Soothing")>>,
    <<Str("Micellar Water"), Str("Pembersih make up"), Str("Kulit berjerawat"), Num(50), Str("Cleansing")>>,
    <<Str("Face wash"), Str("Sabun cuci muka"), Str("Kulit berjerawat, kering, berminyak"), Num(49), Str("Gentle Cleansing")>>,
    <<Str("Ceramide Moisturizer"), Str("Merawat Skin Barrier"), Str("Kulit kering, berminyak, sensitif"), Num(47), Str("Soothing|Barrier")>>,
    <<Str("Pomegranate Serum"), Str("Mencerahkan kulit"), Str("Kulit kusam, bertekstur"), Num(49), Str("Brightening|Antioxidant")>>,
    <<Str("Micellar Water"), Str("Membersihkan Kotoran & Makeup"), Str("Semua jenis kulit"), Num(50), Str("Cleansing|Oil control")>>,
    <<Str("Facial Cleanser"), Str("Pembersih Muka"), Str("Semua jenis kulit"), Num(50), Str("Gentle Cleansing")>>,
    <<Str("Brightening Moisturizer"), Str("Pelembab dan mencerahkan"), Str("Kering, normal, kusam"), Num(50), Str("Brightening|Barrier")>>,
    <<Str("Niacinamide serum"), Str("Menjaga kelembapan kulit"), Str("Semua jenis kulit"), Num(50), Str("Hydrating|Brightening")>>,
    <<Str("Cica-B5 Soothing Toner"), Str("Menenangkan kemerahan"), Str("Kulit kering, berjerawat"), Num(50), Str("Soothing")>>,
    <<Str("Mugwort B3 Clay Stick"), Str("Menenangkan & mengencangkan"), Str("Semua jenis kulit"), Num(50), Str("Barrier|Soothing")>>,
    <<Str("Caramella Sunscreen"), Str("Perawatan muka berminyak"), Str("Kulit berminyak, berjerawat"), Num(50), Str("UV Protection")>>,
    <<Str("Facial Wash"), Str("Pembersih Wajah"), Str("Semua jenis kulit"), Num(50), Str("Brightening|Antioxidant")>>,
    <<Str("Acne Essence Toner"), Str("Menenangkan jerawat meradang"), Str("Kulit berjerawat"), Num(50), Str("Anti-acne|Soothing")>>,
    <<Str("Ceramide Moisturizer"), Str("Merawat Skin Barrier"), Str("Semua jenis kulit"), Num(50), Str("Barrier Repair")>>,
    <<Str("Niacinamide Serum"), Str("Serum pencerah untuk pemula"), Str("Kering, normal"), Num(50), Str("Brightening")>>,
    <<Str("Facial Wash"), Str("Pembersih wajah"), Str("Semua jenis kulit"), Num(50), Str("Brightening")>>,
    <<Str("WhitecallDNA Toner"), Str("Melembabkan & menyamarkan noda"), Str("Semua jenis kulit"), Num(50), Str("Even Tone")>>,
    <<Str("Calm Blemish Moisturizer"), Str("Menenangkan kulit sensitif"), Str("Kulit berjerawat, sensitif"), Num(50), Str("Soothing|Anti-acne")>>,
    <<Str("Whitecell DnA Serum"), Str("Mencerahkan & menyamarkan flek"), Str("Semua jenis kulit"), Num(50), Str("Brightening|Anti-aging")>>,
    <<Str("Micellar Cleansing Water"), Str("Mengangkat Makeup & Kotoran"), Str("Kulit sensitif"), Num(50), Str("Cleansing")>>,
    <<Str("Gentle Low Ph Cleanser"), Str("Sabun muka oily & acne prone"), Str("Kulit berminyak"), Num(50), Str("Oil Control")>>,
    <<Str("Arbutin Serum"), Str("Meratakan warna kulit"), Str("Kulit jerawat dan berminyak"), Num(50), Str("Brightening")>>,
    <<Str("Bright me up Sunscreen"), Str("Mencerahkan & melindungi dari UV"), Str("Semua jenis kulit"), Num(50), Str("UV Protection")>>,
    <<Str("Facial Wash"), Str("Mencerahkan & menghilangkan flek"), Str("Kombinasi"), Num(50), Str("Brightening")>>,
    <<Str("Daily Sunscreen"), Str("Melindungi dari UV & melembabkan"), Str("Kombinasi, kusam, berminyak"), Num(50), Str("UV Protection")>>,
    <<Str("Bright+ Tone Up Micellar"), Str("Membersihkan & mencerahkan"), Str("Kulit kusam"), Num(50), Str("Cleansing|Brightening")>>,
    <<Str("Facial Wash Nature Daily"), Str("Sabun cuci muka lembut"), Str("Semua jenis kulit"), Num(50), Str("Gentle Cleansing")>>,
    <<Str("Essence Toner"), Str("Menyamarkan noda hitam"), Str("Semua jenis kulit"), Num(50), Str("Even Tone")>>,
    <<Str("Glowshot Day Moisturizer"), Str("Pelembab & pemutih wajah"), Str("Normal, berminyak"), Num(50), Str("Brightening")>>,
    <<Str("Acne Calming Sunscreen"), Str("Melindungi & mengatasi jerawat"), Str("Berminyak, berjerawat"), Num(50), Str("UV Protection|Anti-acne")>>,
    <<Str("Micellar Miracle Water"), Str("Membersihkan & mengangkat makeup"), Str("Semua jenis kulit"), Num(50), Str("Cleansing")>>,
    <<Str("Facial Foam"), Str("10x lebih efektif membersihkan pori"), Str("Semua jenis kulit"), Num(50), Str("Deep Cleansing")>>,
    <<Str("Night Serum"), Str("Memudarkan noda hitam"), Str("Semua jenis kulit"), Num(50), Str("Brightening|Repairing")>>,
    <<Str("Brightening Moisturizer"), Str("Menjaga skin biome"), Str("Kulit kering, jerawat"), Num(50), Str("Balancing|Hydrating")>>,
    <<Str("Moisturizer"), Str("Menenangkan kemerahan kulit"), Str("Semua jenis kulit"), Num(50), Str("Soothing|Hydrating")>>,
    <<Str("Micellar Water"), Str("Membersihkan debu dan kotoran"), Str("Kering, kusam, berjerawat"), Num(50), Str("Gentle Cleansing")>>,
    <<Str("Face Wash"), Str("Mencerahkan & memperkuat skin barrier"), Str("Semua jenis kulit"), Num(50), Str("Brightening")>>,
    <<Str("Bright Stuff Face Toner"), Str("Membersihkan & mencerahkan kulit"), Str("Semua jenis kulit"), Num(50), Str("Refreshing|Brightening")>>,
    <<Str("Bright Stuff Face Serum"), Str("Membuat kulit lembab & elastis"), Str("Semua jenis kulit"), Num(50), Str("Hydrating|Glowing")>>
>>

\* DataFrame(data, columns=columns), up to the first SeedRows rows
SeedTable ==
    [columns |-> SeedColumns,
     data |-> SubSeq(SeedData, 1, IF SeedRows < Len(SeedData) THEN SeedRows ELSE Len(SeedData))]

dropna_subset == {"nama_produk", "jenis_kulit_kompatibel", "sub_kategori"}

text_features == <<"jenis_kulit_kompatibel", "sub_kategori", "manfaat", "klaim">>

\* ' '.join(row.values.astype(str)) of the four text features, lower-cased
combined_features(r) ==
    lower(str(r[text_features[1]]) \o " " \o str(r[text_features[2]]) \o " "
          \o str(r[text_features[3]]) \o " " \o str(r[text_features[4]]))

\* the frame load_and_preprocess_data leaves in products_df: rows indexed
\* 0..N-1 are rows[1..N]
Preprocess(df) ==
    LET norm == _normalize_schema(df)
        Complete(r) == \A col \in dropna_subset : ~isna(r[col])
        kept == SelectSeq(norm, Complete)
    IN [kind |-> "DataFrame",
        rows |-> [k \in DOMAIN kept |->
                    [col \in DOMAIN kept[k] \cup {"combined_features", "skin_tokens"} |->
                        IF col = "combined_features" THEN Str(combined_features(kept[k]))
                        ELSE IF col = "skin_tokens"
                             THEN _parse_skin_tokens(kept[k]["jenis_kulit_kompatibel"])
                        ELSE kept[k][col]]]]

len(df) == Len(df.rows)

\* df.loc[idx] for a label idx of the RangeIndex
loc(df, idx) == df.rows[idx + 1]

----------------------------------------------------------------------------
(* build_similarity_matrix: TfidfVectorizer and cosine_similarity *)

max_features == 1000

RECURSIVE TokensFrom(_, _)
\* the matches of the token pattern \b\w\w+\b in s from position i on
TokensFrom(s, i) ==
    IF i > Len(s) THEN <<>>
    ELSE IF ~IsWordChar(CharAt(s, i)) THEN TokensFrom(s, i + 1)
    ELSE LET ends == {j \in i..Len(s) : j = Len(s) \/ ~IsWordChar(CharAt(s, j + 1))}
             e == CHOOSE j \in ends : \A k \in ends : j <= k
         IN (IF e > i THEN <<SubSeq(s, i, e)>> ELSE <<>>) \o TokensFrom(s, e + 1)

\* the analyzer with ngram_range=(1, 2): the tokens, then the pairs of
\* neighbouring tokens joined by a space
Analyze(doc) ==
    LET toks == TokensFrom(lower(doc), 1)
    IN IF Len(toks) < 2 THEN toks
       ELSE toks \o [i \in 1..(Len(toks) - 1) |-> toks[i] \o " " \o toks[i + 1]]

Count(seq, x) == Cardinality({i \in DOMAIN seq : seq[i] = x})

\* 100 * ln(k), k = 1..12
Ln100 == <<0, 69, 110, 139, 161, 179, 195, 208, 220, 230, 240, 248>>

\* 10 * idf with smooth_idf: ln((1 + n) / (1 + df)) + 1
IdfTenths(n, df) == (100 + Ln100[1 + n] - Ln100[1 + df] + 5) \div 10

RECURSIVE IsqrtBetween(_, _, _)
\* the largest r in lo..hi with r * r <= n
IsqrtBetween(n, lo, hi) ==
    IF lo >= hi THEN lo
    ELSE LET mid == (lo + hi + 1) \div 2
         IN IF mid * mid <= n THEN IsqrtBetween(n, mid, hi)
            ELSE IsqrtBetween(n, lo, mid - 1)

Isqrt(n) == IsqrtBetween(n, 0, IF n < 46340 THEN n ELSE 46340)

RECURSIVE SumRange(_, _, _)
SumRange(seq, lo, hi) ==
    IF lo > hi THEN 0
    ELSE IF lo = hi THEN seq[lo]
    ELSE SumRange(seq, lo, (lo + hi) \div 2) + SumRange(seq, (lo + hi) \div 2 + 1, hi)

\* the sum of the entries of a sequence of integers
Sum(seq) == SumRange(seq, 1, Len(seq))

RECURSIVE Flatten(_)
Flatten(seqs) == IF seqs = <<>> THEN <<>> ELSE Head(seqs) \o Flatten(Tail(seqs))

\* the analyzed corpus: the terms of every document
Terms(docs) == [i \in DOMAIN docs |-> Analyze(docs[i])] \o <<>>

\* the vocabulary fit() learns from the corpus, cut to max_features terms by
\* corpus frequency
Vocabulary(docs) ==
    LET all == Range(Flatten(Terms(docs)))
        tfs(t) == Count(Flatten(Terms(docs)), t)
    IN IF Cardinality(all) <= max_features THEN all
       ELSE CHOOSE V \in SUBSET all :
                /\ Cardinality(V) = max_features
                /\ \A t \in V : \A u \in all \ V : tfs(t) >= tfs(u)

\* The tf-idf rows before normalization, in tenths: one weight per position
\* of the flattened corpus, the weight of a term standing at its first
\* position (0 at its repetitions and outside the vocabulary).
TfidfRows(docs, vocabulary) ==
    LET n == Len(docs)
        terms == Terms(docs)
        flat == Flatten(terms)
        first == [k \in DOMAIN flat |->
                     flat[k] \in vocabulary /\ \A j \in 1..(k - 1) : flat[j] # flat[k]] \o <<>>
        df == [k \in DOMAIN flat |->
                  IF first[k]
                  THEN Cardinality({i \in DOMAIN docs : flat[k] \in Range(terms[i])})
                  ELSE 0] \o <<>>
    IN [i \in DOMAIN docs |->
           [k \in DOMAIN flat |->
               IF first[k] THEN Count(terms[i], flat[k]) * IdfTenths(n, df[k]) ELSE 0] \o <<>>]
       \o <<>>

Dot(u, v) == Sum([k \in DOMAIN u |-> u[k] * v[k]] \o <<>>)

\* cosine_similarity of the tf-idf rows, in units of 1/Scale.  A row with no
\* vocabulary term is the zero vector; normalize() leaves it zero, so all its
\* similarities are 0.
Cosine(docs, vocabulary) ==
    LET n == Len(docs)
        w == TfidfRows(docs, vocabulary)
        sq == [i \in DOMAIN docs |-> Dot(w[i], w[i])] \o <<>>
    IN [i \in 0..(n - 1) |-> [j \in 0..(n - 1) |->
           IF sq[i + 1] = 0 \/ sq[j + 1] = 0 THEN 0
           ELSE (Scale * Dot(w[i + 1], w[j + 1])) \div Isqrt(sq[i + 1] * sq[j + 1])]]

Corpus(df) == [k \in DOMAIN df.rows |-> df.rows[k]["combined_features"].s] \o <<>>

----------------------------------------------------------------------------
(* normalize_skin_type and the ranker's arithmetic *)

skin_type_mapping == <<
    <<"berjerawat", <<"berjerawat", "jerawat", "acne">> >>,
    <<"berminyak", <<"berminyak", "oily", "minyak">> >>,
    <<"kering", <<"kering", "dry">> >>,
    <<"sensitif", <<"sensitif", "sensitive">> >>,
    <<"normal", <<"normal">> >>,
    <<"kombinasi", <<"kombinasi", "combination">> >>,
    <<"kusam", <<"kusam", "dull">> >>
>>

normalize_skin_type(user_skin_type) ==
    LET user_skin_type_lower == lower(user_skin_type)
        hits == {g \in DOMAIN skin_type_mapping :
                    \E v \in DOMAIN skin_type_mapping[g][2] :
                        Contains(user_skin_type_lower, skin_type_mapping[g][2][v])}
    IN IF hits = {} THEN user_skin_type_lower
       ELSE skin_type_mapping[CHOOSE g \in hits : \A h \in hits : g <= h][1]

\* the weights of line 210, in tenths
sim_weight == 6
rating_weight == 4
\* the rating scale 5.0 and the default rating 3.0 of line 208, in tenths
rating_scale == 50
rating_default == 30

Max(seq) == CHOOSE x \in Range(seq) : \A y \in Range(seq) : y <= x

Orders(k) == {p \in [1..k -> 1..k] : \A a, b \in 1..k : p[a] = p[b] => a = b}

\* the denominator of the scores of a call with k candidates
ScoreDen(k) == 10 * rating_scale * k * Scale

\* a missing rating counted as 0 (a faulty variant)
rating_nofill(r) ==
    LET v == to_numeric(r["rating"]) IN IF isna(v) THEN 0 ELSE v.tenths

\* pd.to_numeric(rating, errors='coerce').fillna(3.0), in tenths
rating_filled(r) ==
    LET v == to_numeric(r["rating"]) IN IF isna(v) THEN rating_default ELSE v.tenths

\* final_scores times ScoreDen(k): 0.6 * mean similarity + 0.4 * rating / 5.0
final_scores(df, sim, subset_indices) ==
    LET k == Len(subset_indices)
        at(a) == IF subset_indices[a] < 0 THEN subset_indices[a] + sim.n ELSE subset_indices[a]
        row_sum(a) == Sum([b \in 1..k |-> sim.a[at(a)][at(b)]] \o <<>>)
    IN [a \in 1..k |->
           sim_weight * rating_scale * row_sum(a)
           + rating_weight * rating_filled(loc(df, subset_indices[a])) * k * Scale] \o <<>>

\* the orders sort_values(by='score', ascending=False) can leave the rows in
SortedOrders(scores) ==
    {p \in Orders(Len(scores)) :
        \A a \in 1..(Len(scores) - 1) : scores[p[a]] >= scores[p[a + 1]]}

\* sort_values sorts with kind='quicksort', which numpy documents as not
\* stable: the order it leaves rows of equal score in depends on the build.
\* It is the same at every call; the two outcomes kept here are the original
\* relative order and its reverse.
TieOrders == {"kept", "reversed"}

TieBroken(scores, p, ties) ==
    \A a, b \in DOMAIN scores :
        (a < b /\ scores[p[a]] = scores[p[b]]) =>
            IF ties = "kept" THEN p[a] < p[b] ELSE p[a] > p[b]

\* no truncation (a faulty variant)
head_all(seq, n) == seq

\* .head(n)
head(seq, n) == SubSeq(seq, 1, IF n < Len(seq) THEN n ELSE Len(seq))

----------------------------------------------------------------------------
(* The object's state and its methods *)

\* what the last call returned or raised
\* (sim_index: the indices the call indexed similarity_matrix with)
NoReturn(op) ==
    [op |-> op, raised |-> "", s |-> NaN, toks |-> {}, df |-> None, out |-> <<>>,
     user_skin_type |-> "",
     subset_indices |-> <<>>, top_n |-> 0, sim_index |-> <<>>, compatible |-> <<>>,
     top_products |-> <<>>]

Init ==
    /\ products_df = None
    /\ tfidf_vectorizer = None
    /\ similarity_matrix = None
    /\ ret = NoReturn("__init__")
    /\ tie_order \in TieOrders

\* uploaded tables: runs of consecutive rows of a sample, and a table that
\* has neither a skin-type nor a rating column; every table has a row
SampleColumns == <<"Skin Type", "Subkategori", "Manfaat", "Klaim", "Rating">>

SampleData == <<
    <<Str("Semua jenis kulit"), Str("Toner"), Str("Melembabkan kulit"), Str("Hydrating"), Str("5.0")>>,
    <<Str("Dry"), Str("Toner"), Str("Melembabkan kulit"), Str("Hydrating|Soothing"), Num(30)>>,
    <<Str("-"), Str("-"), Str(""), Str("?"), Str("n/a")>>
>>

ReducedTable ==
    [columns |-> <<"Subkategori", "Manfaat", "Klaim">>,
     data |-> << <<Str("Serum"), NaN, Str("Anti-acne")>> >>]

\* a table with an empty skin-type cell
NaNTable ==
    [columns |-> SampleColumns,
     data |-> << <<NaN, Str("Serum"), NaN, Str("Anti-acne"), Num(49)>> >>]

UploadedTables ==
    {[columns |-> SampleColumns, data |-> SubSeq(SampleData, a, b)] :
        <<a, b>> \in {w \in (1..Len(SampleData)) \X (1..Len(SampleData)) :
                        w[1] <= w[2] /\ w[2] - w[1] < MaxRows}}
    \cup {ReducedTable, NaNTable}

UserSkinTypes == {"oily", "Dry", "semua", "xyz"}

Indices == (-1)..MaxRows

RECURSIVE Ascending(_)
\* the elements of a set of integers in ascending order
Ascending(S) ==
    IF S = {} THEN <<>>
    ELSE LET m == CHOOSE x \in S : \A y \in S : x <= y IN <<m>> \o Ascending(S \ {m})

CandidateLists == {Ascending(S) : S \in SUBSET Indices}

\* The frames lines 169-176 make of the uploaded tables and of the built-in
\* table (uploaded_df is None).
UploadedFrames == {Preprocess(uploaded_df) : uploaded_df \in UploadedTables}

SeedFrame == Preprocess(SeedTable)

load_and_preprocess_data(frame) ==
    /\ products_df' = frame
    /\ ret' = NoReturn("load_and_preprocess_data")
    /\ UNCHANGED <<tfidf_vectorizer, similarity_matrix, tie_order>>

Load == \E frame \in UploadedFrames : load_and_preprocess_data(frame)

LoadDefault == load_and_preprocess_data(SeedFrame)

Unfitted == [kind |-> "TfidfVectorizer", vocabulary |-> {}]

\* fit_transform and cosine_similarity on the corpus of a frame: the learned
\* vocabulary and the similarity matrix, or ValueError on an empty vocabulary
FitTransform(df) ==
    LET docs == Corpus(df)
        vocabulary == Vocabulary(docs)
    IN IF vocabulary = {}
       THEN [raised |-> "ValueError", vocabulary |-> {}, matrix |-> None]
       ELSE [raised |-> "", vocabulary |-> vocabulary,
             matrix |-> [kind |-> "ndarray", n |-> Len(docs), a |-> Cosine(docs, vocabulary)]]

\* FitTransform of every frame that can be loaded, computed once
Fitted == {<<frame, FitTransform(frame)>> : frame \in UploadedFrames \cup {SeedFrame}}

build_similarity_matrix ==
    \/ /\ products_df = None
       /\ tfidf_vectorizer' = Unfitted
       /\ ret' = [NoReturn("build_similarity_matrix") EXCEPT !.raised = "TypeError"]
       /\ UNCHANGED <<products_df, similarity_matrix, tie_order>>
    \/ /\ products_df # None
       /\ \E f \in Fitted :
            /\ f[1] = products_df
            /\ tfidf_vectorizer' = [kind |-> "TfidfVectorizer", vocabulary |-> f[2].vocabulary]
            /\ similarity_matrix' = IF f[2].raised = "" THEN f[2].matrix ELSE similarity_matrix
            /\ ret' = [NoReturn("build_similarity_matrix") EXCEPT !.raised = f[2].raised]
            /\ UNCHANGED <<products_df, tie_order>>

\* a mask that keeps only the rows carrying the token (a faulty variant)
CompatibleTokenOnly(df, token) ==
    LET all == [k \in DOMAIN df.rows |-> k - 1]
        Keep(i) == token \in loc(df, i)["skin_tokens"]
    IN SelectSeq(all, Keep)

\* a mask that keeps the semua rows only (a faulty variant)
CompatibleSemuaOnly(df, token) ==
    LET all == [k \in DOMAIN df.rows |-> k - 1]
        Keep(i) == "semua" \in loc(df, i)["skin_tokens"]
    IN SelectSeq(all, Keep)

\* the index labels of the rows the mask of line 197 keeps
Compatible(df, token) ==
    LET all == [k \in DOMAIN df.rows |-> k - 1]
        Keep(i) == "semua" \in loc(df, i)["skin_tokens"] \/ token \in loc(df, i)["skin_tokens"]
    IN SelectSeq(all, Keep)

\* a filter that drops the other rows from products_df (a faulty variant)
find_compatible_products_inplace(user_skin_type) ==
    /\ products_df # None
    /\ LET kept == Compatible(products_df, normalize_skin_type(user_skin_type))
       IN /\ products_df' = [products_df EXCEPT !.rows = [a \in DOMAIN kept |-> loc(products_df, kept[a])]]
          /\ ret' = [NoReturn("find_compatible_products") EXCEPT
                        !.user_skin_type = user_skin_type, !.compatible = kept]
    /\ UNCHANGED <<tfidf_vectorizer, similarity_matrix, tie_order>>

find_compatible_products(user_skin_type) ==
    /\ ret' = IF products_df = None
              THEN [NoReturn("find_compatible_products") EXCEPT
                        !.user_skin_type = user_skin_type, !.raised = "TypeError"]
              ELSE [NoReturn("find_compatible_products") EXCEPT
                        !.user_skin_type = user_skin_type,
                        !.compatible = Compatible(products_df, normalize_skin_type(user_skin_type))]
    /\ UNCHANGED <<products_df, tfidf_vectorizer, similarity_matrix, tie_order>>

Find == \E user_skin_type \in UserSkinTypes : find_compatible_products(user_skin_type)

\* rank_on_subset up to the sort: "empty" for the early return of line 202,
\* the exception a lookup raises, or "scored"
RankOutcome(df, sim, subset_indices) ==
    IF subset_indices = <<>> \/ sim = None THEN "empty"
    ELSE IF df = None THEN "TypeError"
    ELSE IF Max(subset_indices) >= len(df) THEN "empty"
    ELSE IF \E a \in DOMAIN subset_indices :
                subset_indices[a] >= sim.n \/ subset_indices[a] < -sim.n
         THEN "IndexError"
    ELSE IF \E a \in DOMAIN subset_indices : subset_indices[a] \notin 0..(len(df) - 1)
         THEN "KeyError"
    ELSE "scored"

rank_on_subset(subset_indices, top_n) ==
    LET outcome == RankOutcome(products_df, similarity_matrix, subset_indices)
        call == [NoReturn("rank_on_subset") EXCEPT
                    !.subset_indices = subset_indices, !.top_n = top_n]
    IN /\ \/ /\ outcome = "empty"
             /\ ret' = call
          \/ /\ outcome \in {"TypeError", "IndexError"}
             /\ ret' = [call EXCEPT !.raised = outcome,
                           !.sim_index = IF outcome = "IndexError" THEN subset_indices ELSE <<>>]
          \/ /\ outcome = "KeyError"
             /\ ret' = [call EXCEPT !.raised = outcome, !.sim_index = subset_indices]
          \/ /\ outcome = "scored"
             /\ LET scores == final_scores(products_df, similarity_matrix, subset_indices)
                IN \E p \in SortedOrders(scores) :
                      /\ TieBroken(scores, p, tie_order)
                      /\ LET ranked == head([a \in DOMAIN scores |-> p[a]], top_n)
                         IN ret' = [call EXCEPT
                                       !.sim_index = subset_indices,
                                       !.top_products =
                                           [a \in DOMAIN ranked |->
                                               [original_index |-> subset_indices[ranked[a]],
                                                score |-> scores[ranked[a]]]]]
       /\ UNCHANGED <<products_df, tfidf_vectorizer, similarity_matrix, tie_order>>

Rank == \E subset_indices \in CandidateLists, top_n \in 1..MaxTopN :
            rank_on_subset(subset_indices, top_n)

Next == Load \/ LoadDefault \/ build_similarity_matrix \/ Find \/ Rank

Spec == Init /\ [][Next]_vars

----------------------------------------------------------------------------
(* The canonicalizer on its own: _parse_skin_tokens applied to raw texts *)

Phrases == <<"Kulit berjerawat", "berminyak", "Semua jenis kulit", "all skin types",
             "Dry", "Kulit minyak", "normal", "Sensitive skin", "Combination",
             "dull dan dry", "bertekstur", "">>

Delimiters == <<",", "|", "/", ";", "&", ", ", " & ">>

\* the raw skin-type values: NaN, the texts of the built-in table, one phrase,
\* and two phrases around a delimiter
RawSkinTexts ==
    {NaN}
    \cup {SeedData[i][3] : i \in DOMAIN SeedData}
    \cup {Str(Phrases[p]) : p \in DOMAIN Phrases}
    \cup {Str(Phrases[p] \o Delimiters[d] \o Phrases[q]) :
            p \in DOMAIN Phrases, d \in DOMAIN Delimiters, q \in DOMAIN Phrases}

InitCanon ==
    \E s \in RawSkinTexts :
        /\ products_df = None
        /\ tfidf_vectorizer = None
        /\ similarity_matrix = None
        /\ ret = [NoReturn("__init__") EXCEPT !.s = s]
        /\ tie_order = "kept"

ParseSkinTokens ==
    /\ ret.op = "__init__"
    /\ ret' = [NoReturn("_parse_skin_tokens") EXCEPT !.s = ret.s, !.toks = _parse_skin_tokens(ret.s)]
    /\ UNCHANGED <<products_df, tfidf_vectorizer, similarity_matrix, tie_order>>

SpecCanon == InitCanon /\ [][ParseSkinTokens]_vars

----------------------------------------------------------------------------
(* The ranker on its own: rank_on_subset over frames and similarity matrices
   drawn from bounded sets.  The frame comes from a table of ratings; the
   matrix is symmetric with unit diagonal and entries 0, 0.8 or 1.0, any one
   the cosine similarities of some corpus can be. *)

RankRatings == {NaN, Num(30), Num(50)}

SimLevelTenths == {0, 8, 10}

RatingTable(ratings) ==
    [columns |-> <<"Rating">>, data |-> [k \in DOMAIN ratings |-> <<ratings[k]>>]]

\* a Gram matrix of unit vectors has a non-negative determinant on every triple
RankMatrices(n) ==
    {m \in [0..(n - 1) -> [0..(n - 1) -> SimLevelTenths]] :
        /\ \A i, j \in 0..(n - 1) : m[i][j] = m[j][i] /\ m[i][i] = 10
        /\ \A i, j, k \in 0..(n - 1) :
              (i < j /\ j < k) =>
                  1000 + 2 * m[i][j] * m[j][k] * m[i][k]
                  - 10 * (m[i][j] * m[i][j] + m[j][k] * m[j][k] + m[i][k] * m[i][k]) >= 0}

InitRank ==
    \E n \in 1..MaxRank :
        \E ratings \in [1..n -> RankRatings], m \in RankMatrices(n) :
            /\ products_df = Preprocess(RatingTable(ratings))
            /\ tfidf_vectorizer = Unfitted
            /\ similarity_matrix =
                   [kind |-> "ndarray", n |-> n,
                    a |-> [i \in 0..(n - 1) |-> [j \in 0..(n - 1) |-> (m[i][j] * Scale) \div 10]]]
            /\ ret = NoReturn("__init__")
            /\ tie_order \in TieOrders

RECURSIVE SeqsUpTo(_, _)
\* the sequences over S of length at most n
SeqsUpTo(S, n) ==
    IF n = 0 THEN {<<>>}
    ELSE SeqsUpTo(S, n - 1)
         \cup {Append(q, x) : q \in {r \in SeqsUpTo(S, n - 1) : Len(r) = n - 1}, x \in S}

RankLists == SeqsUpTo((-1)..MaxRank, MaxSubset)

RankAny ==
    /\ ret.op = "__init__"
    /\ \E subset_indices \in RankLists, top_n \in 1..MaxTopN :
           rank_on_subset(subset_indices, top_n)

SpecRank == InitRank /\ [][RankAny]_vars

----------------------------------------------------------------------------
(* Properties of the skin-token canonicalizer *)

\* the skin_tokens line 175 gives each row of the whole built-in table
SeedTokenSets ==
    {_parse_skin_tokens(astype_str(SeedData[i][3])) : i \in DOMAIN SeedData}

Rows == IF products_df = None THEN <<>> ELSE products_df.rows

\* C1: after load_and_preprocess_data on any input table or on the built-in
\* table, every product's skin_tokens is a non-empty set of canonical tokens,
\* also when its skin-type text is absent, empty or matches no rule.
C1_SkinTokensNonEmpty ==
    /\ \A k \in DOMAIN Rows : Rows[k]["skin_tokens"] # {} /\ Rows[k]["skin_tokens"] \subseteq CANON
    /\ \A toks \in SeedTokenSets : toks # {} /\ toks \subseteq CANON

\* a loaded catalog holds a product whose skin-type text matches no rule
C1_Witness ==
    /\ ret.op = "load_and_preprocess_data"
    /\ \E k \in DOMAIN Rows :
          /\ _parse_skin_tokens_nofallback(Rows[k]["jenis_kulit_kompatibel"]) = {}
          /\ Rows[k]["skin_tokens"] = {"semua"}

\* the word w stands in t between word boundaries
ContainsWord(t, w) ==
    \E i \in 1..(Len(t) - Len(w) + 1) :
        /\ SubSeq(t, i, i + Len(w) - 1) = w
        /\ WordBoundary(t, i)
        /\ WordBoundary(t, i + Len(w))

\* the "all"/"semua" signal of a raw skin-type value
HasAllSignal(s) ==
    ~isna(s) /\ (Contains(lower(str(s)), "semua") \/ ContainsWord(lower(str(s)), "all"))

\* the phrases of a raw skin-type text
PhrasesOf(s) == split(lower(str(s)))

\* no phrase of the text matches a rule of the canonicalizer
NoPhraseMatches(s) ==
    \A i \in DOMAIN PhrasesOf(s) : _canonicalize_skin_token(PhrasesOf(s)[i]) = {}

Parsed == ret.op = "_parse_skin_tokens"

\* C2 as stated: if semua is in the skin_tokens of a raw skin-type text, the
\* text contained an "all"/"semua" signal.
C2_SemuaImpliesSignal ==
    (Parsed /\ "semua" \in ret.toks) => HasAllSignal(ret.s)

\* C2 amended: if semua is in the skin_tokens of a raw skin-type value, then
\* the value contained an "all"/"semua" signal, or was absent, or none of its
\* phrases matched a rule (the fail-open rule); and semua is then the only token.
C2_SemuaImpliesSignalOrFailOpen ==
    (Parsed /\ "semua" \in ret.toks) =>
        /\ HasAllSignal(ret.s) \/ isna(ret.s) \/ NoPhraseMatches(ret.s)
        /\ ret.toks = {"semua"}

\* a text without any signal whose phrases match no rule was given {semua}
C2_Witness ==
    /\ Parsed
    /\ ~isna(ret.s) /\ str(ret.s) # "" /\ ~HasAllSignal(ret.s)
    /\ ret.toks = {"semua"}

\* C3: if any phrase of a raw skin-type text contains the word "all" or
\* "semua", the canonicalizer returns exactly {semua} for the whole field,
\* whatever other phrases the text holds.
C3_AllShortCircuits ==
    (Parsed /\ ~isna(ret.s)
       /\ \E i \in DOMAIN PhrasesOf(ret.s) :
             ContainsWord(PhrasesOf(ret.s)[i], "all") \/ Contains(PhrasesOf(ret.s)[i], "semua"))
    => ret.toks = {"semua"}

\* the synonyms section 4.2 of the specification lists for each token
ListedSynonyms == <<
    <<"berjerawat", {"acne", "jerawat"}>>,
    <<"berminyak", {"oily", "minyak"}>>,
    <<"kering", {"dry"}>>,
    <<"sensitif", {"sensitive"}>>,
    <<"kombinasi", {"combination"}>>,
    <<"kusam", {"dull"}>>
>>

\* the tokens a phrase holds a listed synonym of
TokensNamedIn(phrase) ==
    {ListedSynonyms[g][1] : g \in {h \in DOMAIN ListedSynonyms :
                                     \E syn \in ListedSynonyms[h][2] : Contains(phrase, syn)}}

\* C4: for a raw skin-type text without an all/semua signal, each phrase
\* between delimiters that contains a known synonym (of one token)
\* contributes that token: acne/jerawat -> berjerawat, oily/minyak ->
\* berminyak, dry -> kering, sensitive -> sensitif, combination -> kombinasi,
\* dull -> kusam; and "Kulit berjerawat & berminyak" yields exactly
\* {berjerawat, berminyak}.
C4_SynonymsContribute ==
    (Parsed /\ ~isna(ret.s) /\ ~HasAllSignal(ret.s)) =>
        /\ \A i \in DOMAIN PhrasesOf(ret.s) :
              Cardinality(TokensNamedIn(PhrasesOf(ret.s)[i])) = 1
                  => TokensNamedIn(PhrasesOf(ret.s)[i]) \subseteq ret.toks
        /\ ret.s = Str("Kulit berjerawat & berminyak") => ret.toks = {"berjerawat", "berminyak"}

----------------------------------------------------------------------------
(* Properties of the filter *)

\* the canonical token section 4.6 of the specification gives each user text
NormalizedUserToken == [oily |-> "berminyak", Dry |-> "kering", semua |-> "semua", xyz |-> "xyz"]

\* C5: find_compatible_products(user_skin_type) returns exactly the products
\* whose skin_tokens contains semua or the normalized user token, no others,
\* in catalog order; filtering for "oily" over one product tagged {semua} and
\* one tagged {kering} returns only the {semua} product.
C5_ExactFilter ==
    (ret.op = "find_compatible_products" /\ ret.raised = "") =>
        LET token == NormalizedUserToken[ret.user_skin_type]
            Wanted(i) == "semua" \in Rows[i + 1]["skin_tokens"] \/ token \in Rows[i + 1]["skin_tokens"]
        IN /\ \A a \in DOMAIN ret.compatible :
                 ret.compatible[a] \in 0..(Len(Rows) - 1) /\ Wanted(ret.compatible[a])
           /\ \A i \in 0..(Len(Rows) - 1) :
                 Wanted(i) => \E a \in DOMAIN ret.compatible : ret.compatible[a] = i
           /\ \A a, b \in DOMAIN ret.compatible : a < b => ret.compatible[a] < ret.compatible[b]
           /\ (ret.user_skin_type = "oily" /\ Len(Rows) = 2
                 /\ Rows[1]["skin_tokens"] = {"semua"} /\ Rows[2]["skin_tokens"] = {"kering"})
              => ret.compatible = <<0>>

\* "oily" was filtered over a product tagged {semua} and one tagged {kering}
C5_Witness ==
    /\ ret.op = "find_compatible_products"
    /\ ret.user_skin_type = "oily"
    /\ Len(Rows) = 2
    /\ Rows[1]["skin_tokens"] = {"semua"} /\ Rows[2]["skin_tokens"] = {"kering"}
    /\ ret.compatible = <<0>>

----------------------------------------------------------------------------
(* Properties of the ranker *)

Ranked == ret.op = "rank_on_subset"

\* C6: for any candidate index list and any positive top_n, rank_on_subset
\* returns at most top_n entries, their scores in non-increasing order.
C6_AtMostTopNDescending ==
    Ranked =>
        /\ Len(ret.top_products) <= ret.top_n
        /\ \A a \in 1..(Len(ret.top_products) - 1) :
              ret.top_products[a].score >= ret.top_products[a + 1].score

\* two candidates of different scores were ranked with top_n = 1, and the
\* second of the list is the one returned
C6_Witness ==
    /\ Ranked /\ ret.raised = ""
    /\ Len(ret.subset_indices) = 2 /\ ret.top_n = 1
    /\ Len(ret.top_products) = 1
    /\ ret.top_products[1].original_index = ret.subset_indices[2]
    /\ ret.subset_indices[1] # ret.subset_indices[2]
    /\ rating_filled(loc(products_df, ret.subset_indices[1]))
         < rating_filled(loc(products_df, ret.subset_indices[2]))

\* C7: the score of every candidate rank_on_subset returns equals
\* 0.6 x (mean of its similarity to all candidates of the subset, itself
\* included) + 0.4 x (rating / 5.0), a missing rating counting as 3.0; two
\* candidates of mutual similarity 0.8 and ratings 5.0 and 3.0 score
\* 0.6 x 0.9 + 0.4 x 1.0 and 0.6 x 0.9 + 0.4 x 0.6, the higher-rated first.
\* (A score is a numerator over ScoreDen(k) = 500 * k * Scale, a similarity
\* one over Scale, a rating is in tenths: 500 * k * Scale times the blend is
\* 6 * 50 * the sum of the similarities + 4 * rating * k * Scale.)
C7_BlendedScore ==
    Ranked =>
        LET k == Len(ret.subset_indices)
            top == ret.top_products
            SimSum(idx) == Sum([b \in 1..k |-> similarity_matrix.a[idx][ret.subset_indices[b]]] \o <<>>)
            Rating(idx) == IF isna(Rows[idx + 1]["rating"]) THEN 30 ELSE Rows[idx + 1]["rating"].tenths
        IN /\ \A a \in DOMAIN top :
                 /\ \E b \in 1..k : ret.subset_indices[b] = top[a].original_index
                 /\ ScoreDen(k) = 500 * k * Scale
                 /\ top[a].score = 6 * 50 * SimSum(top[a].original_index)
                                   + 4 * Rating(top[a].original_index) * k * Scale
           /\ (/\ Len(Rows) = 2 /\ similarity_matrix.n = 2
               /\ ret.subset_indices \in {<<0, 1>>, <<1, 0>>} /\ ret.top_n >= 2
               /\ similarity_matrix.a[0][1] * 10 = 8 * Scale
               /\ similarity_matrix.a[0][0] = Scale /\ similarity_matrix.a[1][1] = Scale
               /\ Rows[1]["rating"] = Num(50) /\ Rows[2]["rating"] = Num(30))
              => /\ Len(top) = 2
                 /\ top[1].original_index = 0 /\ top[2].original_index = 1
                 /\ top[1].score * 100 = (6 * 9 + 4 * 10) * ScoreDen(2)
                 /\ top[2].score * 100 = (6 * 9 + 4 * 6) * ScoreDen(2)

\* the two candidates of the scenario were ranked, the lower-rated one given first
C7_Witness ==
    /\ Ranked
    /\ Len(Rows) = 2 /\ similarity_matrix.n = 2
    /\ ret.subset_indices = <<1, 0>> /\ ret.top_n = 2
    /\ similarity_matrix.a[0][1] * 10 = 8 * Scale
    /\ Rows[1]["rating"] = Num(50) /\ Rows[2]["rating"] = Num(30)
    /\ Len(ret.top_products) = 2
    /\ ret.top_products[1].original_index = 0
    /\ ret.top_products[1].score * 100 = 94 * ScoreDen(2)
    /\ ret.top_products[2].score * 100 = 78 * ScoreDen(2)

\* similarity_matrix is the one build_similarity_matrix makes of products_df
MatrixOfCatalog ==
    \E f \in Fitted : f[1] = products_df /\ f[2].raised = "" /\ f[2].matrix = similarity_matrix

\* C8: rank_on_subset on a candidate list holding one valid index, with
\* top_n >= 1, returns exactly that candidate, its mean similarity 1.0 (so
\* its score 0.6 x 1.0 + 0.4 x rating / 5.0), for every product of every
\* catalog that loads.
C8_SingleCandidate ==
    (/\ Ranked
     /\ Len(ret.subset_indices) = 1
     /\ ret.subset_indices[1] \in 0..(Len(Rows) - 1)
     /\ MatrixOfCatalog)
    => /\ ret.raised = ""
       /\ Len(ret.top_products) = 1
       /\ ret.top_products[1].original_index = ret.subset_indices[1]
       /\ ret.top_products[1].score
            = 6 * 50 * Scale + 4 * rating_filled(loc(products_df, ret.subset_indices[1])) * Scale

\* C9: rank_on_subset returns an empty result, without raising and without
\* reading the similarity matrix or the catalog at an invalid position,
\* whenever the candidate list is empty or holds an index that is not a
\* catalog position 0..N-1 (too large or negative).
C9_InvalidIndexEmpty ==
    (/\ Ranked
     /\ \/ ret.subset_indices = <<>>
        \/ \E a \in DOMAIN ret.subset_indices : ret.subset_indices[a] \notin 0..(Len(Rows) - 1))
    => /\ ret.raised = ""
       /\ ret.top_products = <<>>
       /\ ret.sim_index = <<>>

\* C10: for any non-empty catalog the matrix build_similarity_matrix makes is
\* symmetric, has diagonal entries 1.0 for every product (also one whose
\* combined feature text contributes no vocabulary term), and all entries in
\* [0, 1].
C10_SymmetricUnitDiagonal ==
    (ret.op = "build_similarity_matrix" /\ ret.raised = "") =>
        \A i, j \in 0..(similarity_matrix.n - 1) :
            /\ similarity_matrix.a[i][j] = similarity_matrix.a[j][i]
            /\ similarity_matrix.a[i][i] = Scale
            /\ similarity_matrix.a[i][j] >= 0 /\ similarity_matrix.a[i][j] <= Scale

----------------------------------------------------------------------------
(* Properties of the filter on unrecognized user texts *)

\* the user text holds no variant of any synonym group of lines 184-188
NoGroupMatches(user_skin_type) ==
    \A g \in DOMAIN skin_type_mapping : \A v \in DOMAIN skin_type_mapping[g][2] :
        ~Contains(lower(user_skin_type), skin_type_mapping[g][2][v])

\* find_compatible_products was called on a loaded catalog with a text that
\* matches no synonym group and whose lower-cased form no product carries
Unrecognized ==
    /\ ret.op = "find_compatible_products"
    /\ products_df # None
    /\ NoGroupMatches(ret.user_skin_type)
    /\ \A k \in DOMAIN Rows : lower(ret.user_skin_type) \notin Rows[k]["skin_tokens"]

\* the index labels of the products tagged semua, in catalog order
SemuaRows == SelectSeq([k \in DOMAIN Rows |-> k - 1], LAMBDA i : "semua" \in Rows[i + 1]["skin_tokens"])

\* C11 as stated: when the user-supplied skin type matches no synonym group
\* and its lower-cased form is not a token carried by any product,
\* find_compatible_products raises no error and returns zero compatible
\* products.
C11_FailToEmpty ==
    Unrecognized => ret.raised = "" /\ ret.compatible = <<>>

\* C11 amended: in that case find_compatible_products raises no error and
\* returns exactly the products tagged semua, in catalog order: zero products
\* when the catalog holds no product tagged semua.
C11_FailToSemuaOnly ==
    Unrecognized =>
        /\ ret.raised = ""
        /\ ret.compatible = SemuaRows
        /\ (\A k \in DOMAIN Rows : "semua" \notin Rows[k]["skin_tokens"]) => ret.compatible = <<>>

\* an unrecognized text was filtered over a catalog holding a product tagged
\* semua and one that is not, and the semua product came back
C11_Witness ==
    /\ Unrecognized
    /\ ret.user_skin_type = "xyz"
    /\ Len(Rows) = 2
    /\ "semua" \in Rows[1]["skin_tokens"] /\ "semua" \notin Rows[2]["skin_tokens"]
    /\ ret.compatible = <<0>>

----------------------------------------------------------------------------
(* Properties of the object's lifecycle *)

\* C12: after any sequence of load_and_preprocess_data,
\* build_similarity_matrix, find_compatible_products and rank_on_subset calls
\* on one object, the held similarity matrix is either absent or is the N x N
\* matrix built from the currently held catalog of N rows; loading a new data
\* source never leaves the matrix of the previous catalog in place.
C12_MatrixMatchesCatalog ==
    similarity_matrix # None =>
        /\ products_df # None
        /\ similarity_matrix.n = Len(Rows)
        /\ MatrixOfCatalog

----------------------------------------------------------------------------
(* Properties of the order among equal scores *)

\* the position of index idx in a candidate list that holds it once
PositionIn(subset_indices, idx) == CHOOSE a \in DOMAIN subset_indices : subset_indices[a] = idx

NoRepeats(seq) == \A a, b \in DOMAIN seq : seq[a] = seq[b] => a = b

----------------------------------------------------------------------------
(* Frame properties of the queries *)

Queried == ret.op \in {"find_compatible_products", "rank_on_subset"}

\* C14: find_compatible_products and rank_on_subset leave the catalog (rows,
\* order, skin_tokens, ratings) and the similarity matrix unchanged, for
\* every input, unrecognized skin types and empty or out-of-range candidate
\* lists included, so repeating the same query on the same object returns
\* the same result.
C14_QueriesReadOnly ==
    [][ Queried' =>
          /\ products_df' = products_df
          /\ similarity_matrix' = similarity_matrix
          /\ (/\ ret'.op = ret.op
              /\ ret'.user_skin_type = ret.user_skin_type
              /\ ret'.subset_indices = ret.subset_indices
              /\ ret'.top_n = ret.top_n) => ret' = ret ]_vars

\* an out-of-range candidate list was ranked on an object that holds a
\* catalog and its matrix
C14_Witness ==
    /\ Ranked
    /\ MatrixOfCatalog
    /\ \E a \in DOMAIN ret.subset_indices : ret.subset_indices[a] >= Len(Rows)
    /\ ret.top_products = <<>>

----------------------------------------------------------------------------
(* The schema normalizer on its own: _normalize_schema applied to tables *)

\* "Harga" and "Price" are both renamed to harga_idr by line 88
SchemaColumns == <<"Product Name", "Harga", "Price", "Rating", "Manfaat">>

SchemaCells == {NaN, Str("abc"), Str("4.5"), Num(45)}

\* the tables of one row over the non-empty selections of SchemaColumns
SchemaTables ==
    UNION {{[columns |-> [a \in DOMAIN Ascending(S) |-> SchemaColumns[Ascending(S)[a]]],
             data |-> <<row>>] :
               row \in [1..Cardinality(S) -> SchemaCells]} :
           S \in (SUBSET DOMAIN SchemaColumns) \ {{}}}

\* the positions of the columns of df that line 80 and line 88 name col
ColumnsNamed(df, col) == {i \in DOMAIN df.columns : ColumnName(df.columns[i]) = col}

\* df[col] of line 99 is a DataFrame when two columns are named col, and
\* pd.to_numeric raises TypeError on an argument of two dimensions
ToNumericRaises(df) == \E col \in numeric_cols : Cardinality(ColumnsNamed(df, col)) > 1

InitSchema ==
    \E df \in SchemaTables :
        /\ products_df = None
        /\ tfidf_vectorizer = None
        /\ similarity_matrix = None
        /\ ret = [NoReturn("__init__") EXCEPT !.df = df]
        /\ tie_order = "kept"

NormalizeSchema ==
    /\ ret.op = "__init__"
    /\ \/ /\ ToNumericRaises(ret.df)
          /\ ret' = [NoReturn("_normalize_schema") EXCEPT !.df = ret.df, !.raised = "TypeError"]
       \/ /\ ~ToNumericRaises(ret.df)
          /\ ret' = [NoReturn("_normalize_schema") EXCEPT
                        !.df = ret.df, !.out = _normalize_schema(ret.df)]
    /\ UNCHANGED <<products_df, tfidf_vectorizer, similarity_matrix, tie_order>>

SpecSchema == InitSchema /\ [][NormalizeSchema]_vars

\* the canonical text fields lines 101-103 cast
text_cols == required_cols \ (numeric_cols \cup {"id"})

\* the cell of row k of the input table under canonical name col: absent
\* when no column has the name or the cell is NaN
InputAbsent(df, k, col) ==
    \/ ColumnsNamed(df, col) = {}
    \/ \E i \in ColumnsNamed(df, col) : isna(df.data[k][i])

\* C15: _normalize_schema completes without error on any input table (any
\* column names, several columns that alias to one canonical field included,
\* and any cell values); in its output every canonical text field of every
\* row is the empty string when the column or the cell was absent, and every
\* canonical numeric field (rating, price, size) is a number or missing.
C15_NormalizeNeverFails ==
    ret.op = "_normalize_schema" =>
        /\ ret.raised = ""
        /\ Len(ret.out) = Len(ret.df.data)
        /\ \A k \in DOMAIN ret.out :
              /\ \A col \in text_cols :
                    /\ ret.out[k][col].kind = "str"
                    /\ InputAbsent(ret.df, k, col) => ret.out[k][col] = Str("")
              /\ \A col \in numeric_cols :
                    /\ ret.out[k][col].kind \in {"num", "nan"}
                    /\ InputAbsent(ret.df, k, col) => ret.out[k][col] = NaN

====
